---- MODULE Spec2Model ----
(***************************************************************************)
(* robco: the candidate-password pool of src/hacker.rs (struct Hacker), its*)
(* operations new, filter, answer, recommend, add and remove, and the      *)
(* command loop of src/lib.rs (App::run, App::step) that drives them.      *)
(*                                                                         *)
(* A password is a sequence of characters (Unicode scalar values, written  *)
(* as their code points); the pool is the Vec<String> `passwords`, kept as *)
(* a sequence because its order decides swap_remove and min_by_key.        *)
(***************************************************************************)
EXTENDS Integers, Sequences, FiniteSets, TLC

\* Longest password drawn as an input.
MaxLen == 2
\* Longest list handed to Hacker::new.
MaxInput == 3
\* Number of calls made on a Hacker after its construction.
MaxSteps == 2

\* The alphabet: 'a' (U+0061, one byte in UTF-8) and 'e-acute' (U+00E9, two bytes).
Chars == {97, 233}

Words == UNION {[1..n -> Chars] : n \in 0..MaxLen}
Inputs == UNION {[1..n -> Words] : n \in 0..MaxInput}
Correctnesses == 0..(MaxLen + 1)

Range(v) == {v[i] : i \in 1..Len(v)}
NoDuplicates(v) == \A i, j \in 1..Len(v) : v[i] = v[j] => i = j

\* Option<T> and Result<T, E> values.
None == <<"None">>
Some(x) == <<"Some", x>>
Ok == <<"Ok">>
OkVal(x) == <<"Ok", x>>

----------------------------------------------------------------------------
\* Pure functions of src/hacker.rs

\* Variant of commonality: strings of different lengths have nothing in common.
RECURSIVE commonality_same_length(_, _)
commonality_same_length(s, t) ==
    IF Len(s) # Len(t) \/ s = <<>>
    THEN 0
    ELSE (IF Head(s) = Head(t) THEN 1 ELSE 0) + commonality_same_length(Tail(s), Tail(t))

\* s.chars().zip(t.chars()).map(|(sc, tc)| usize::from(sc == tc)).sum()
RECURSIVE commonality(_, _)
commonality(s, t) ==
    IF s = <<>> \/ t = <<>>
    THEN 0
    ELSE (IF Head(s) = Head(t) THEN 1 ELSE 0) + commonality(Tail(s), Tail(t))

\* str::len: the length in UTF-8 bytes.
RECURSIVE utf8_len(_)
utf8_len(s) ==
    IF s = <<>> THEN 0
    ELSE (IF Head(s) < 128 THEN 1 ELSE IF Head(s) < 2048 THEN 2 ELSE 3) + utf8_len(Tail(s))

\* guess.chars().count()
chars_count(s) == Len(s)

\* Ord for String: lexicographic on the UTF-8 bytes, which is the order of the
\* code points; a proper prefix is smaller.
RECURSIVE str_lt(_, _)
str_lt(s, t) ==
    IF t = <<>> THEN FALSE
    ELSE IF s = <<>> THEN TRUE
    ELSE IF Head(s) # Head(t) THEN Head(s) < Head(t)
    ELSE str_lt(Tail(s), Tail(t))

\* Inserts x into the sorted sequence v.
RECURSIVE insert_sorted(_, _)
insert_sorted(x, v) ==
    IF v = <<>> THEN <<x>>
    ELSE IF str_lt(Head(v), x) THEN <<Head(v)>> \o insert_sorted(x, Tail(v))
    ELSE <<x>> \o v

\* Vec::sort_unstable: the elements in ascending order (equal strings are
\* indistinguishable, so the unstable order is one order).
RECURSIVE sort_unstable(_)
sort_unstable(v) ==
    IF v = <<>> THEN <<>> ELSE insert_sorted(Head(v), sort_unstable(Tail(v)))

\* Vec::dedup: removes consecutive repeated elements.
RECURSIVE dedup(_)
dedup(v) ==
    IF Len(v) <= 1 THEN v
    ELSE IF v[1] = v[2] THEN dedup(Tail(v))
    ELSE <<v[1]>> \o dedup(Tail(v))

\* Variant of swap_remove: the last element is popped without the swap.
swap_remove_no_swap(v, i) == SubSeq(v, 1, Len(v) - 1)

\* Vec::swap_remove(i): the element at i is replaced by the last one.
swap_remove(v, i) ==
    IF i = Len(v)
    THEN SubSeq(v, 1, Len(v) - 1)
    ELSE SubSeq([v EXCEPT ![i] = v[Len(v)]], 1, Len(v) - 1)

\* Iterator::position: index of the first element equal to x, 0 for None.
position(v, x) ==
    IF \E i \in 1..Len(v) : v[i] = x
    THEN CHOOSE i \in 1..Len(v) : v[i] = x /\ \A j \in 1..(i - 1) : v[j] # x
    ELSE 0

----------------------------------------------------------------------------
\* Methods of Hacker: each gives the Vec afterwards and the value returned.

\* Variant of new: dedup without the sort before it.
new_dedup_only(input) == dedup(input)

\* Hacker::new
new(input) == dedup(sort_unstable(input))

\* Hacker::candidates
candidates(pws) == pws

\* Variant of filter: retain keeps the candidates with at least `correctness`
\* characters in common.
filter_at_least(pws, guess, correctness) ==
    IF ~(\E i \in 1..Len(pws) : pws[i] = guess)
    THEN [passwords |-> pws, result |-> <<"UnknownPassword", guess>>]
    ELSE IF correctness > chars_count(guess)
    THEN [passwords |-> pws, result |-> <<"InvalidCorrectness", guess, correctness>>]
    ELSE [passwords |-> SelectSeq(pws, LAMBDA pw : commonality(pw, guess) >= correctness),
          result |-> Ok]

\* Variant of filter: retain also drops the guess itself.
filter_drops_guess(pws, guess, correctness) ==
    IF ~(\E i \in 1..Len(pws) : pws[i] = guess)
    THEN [passwords |-> pws, result |-> <<"UnknownPassword", guess>>]
    ELSE IF correctness > chars_count(guess)
    THEN [passwords |-> pws, result |-> <<"InvalidCorrectness", guess, correctness>>]
    ELSE [passwords |-> SelectSeq(pws, LAMBDA pw :
                                      pw # guess /\ commonality(pw, guess) = correctness),
          result |-> Ok]

\* Variant of filter: retain runs before the arguments are validated.
filter_retain_first(pws, guess, correctness) ==
    LET kept == SelectSeq(pws, LAMBDA pw : commonality(pw, guess) = correctness) IN
    IF ~(\E i \in 1..Len(pws) : pws[i] = guess)
    THEN [passwords |-> kept, result |-> <<"UnknownPassword", guess>>]
    ELSE IF correctness > chars_count(guess)
    THEN [passwords |-> kept, result |-> <<"InvalidCorrectness", guess, correctness>>]
    ELSE [passwords |-> kept, result |-> Ok]

\* Variant of filter: the guess is not looked up in the pool.
filter_unchecked_guess(pws, guess, correctness) ==
    IF correctness > chars_count(guess)
    THEN [passwords |-> pws, result |-> <<"InvalidCorrectness", guess, correctness>>]
    ELSE [passwords |-> SelectSeq(pws, LAMBDA pw : commonality(pw, guess) = correctness),
          result |-> Ok]

\* Hacker::filter
filter(pws, guess, correctness) ==
    IF ~(\E i \in 1..Len(pws) : pws[i] = guess)
    THEN [passwords |-> pws, result |-> <<"UnknownPassword", guess>>]
    ELSE IF correctness > chars_count(guess)
    THEN [passwords |-> pws, result |-> <<"InvalidCorrectness", guess, correctness>>]
    ELSE [passwords |-> SelectSeq(pws, LAMBDA pw : commonality(pw, guess) = correctness),
          result |-> Ok]

\* Variant of answer: any nonempty pool answers with its first candidate.
answer_nonempty(pws) == IF Len(pws) >= 1 THEN Some(pws[1]) ELSE None

\* Hacker::answer
answer(pws) == IF Len(pws) = 1 THEN Some(pws[1]) ELSE None

\* Variant of add: the password is pushed without the lookup.
add_always_push(pws, password) == [passwords |-> Append(pws, password), result |-> Ok]

\* Hacker::add
add(pws, password) ==
    IF position(candidates(pws), password) = 0
    THEN [passwords |-> Append(pws, password), result |-> Ok]
    ELSE [passwords |-> pws, result |-> <<"AlreadyPresent", password>>]

\* Hacker::remove
remove(pws, password) ==
    LET i == position(candidates(pws), password) IN
    IF i = 0
    THEN [passwords |-> pws, result |-> <<"UnknownPassword", password>>]
    ELSE [passwords |-> swap_remove(pws, i), result |-> Ok]

\* The closure filtration_power of Hacker::recommend.
RECURSIVE sum_counts(_, _, _)
sum_counts(pws, rest, guess) ==
    IF rest = <<>> THEN 0
    ELSE Len(SelectSeq(candidates(pws),
                       LAMBDA candidate :
                           commonality(candidate, guess) = commonality(Head(rest), guess)))
         + sum_counts(pws, Tail(rest), guess)

filtration_power(pws, guess) == sum_counts(pws, candidates(pws), guess)

\* Variant of min_by_key: the scan stops at the first element whose key is not
\* above the key of the next one.
min_by_key_local(pws) ==
    IF pws = <<>> THEN 0
    ELSE CHOOSE i \in 1..Len(pws) :
            /\ \/ i = Len(pws)
               \/ filtration_power(pws, pws[i]) <= filtration_power(pws, pws[i + 1])
            /\ \A j \in 1..(i - 1) :
                  filtration_power(pws, pws[j]) > filtration_power(pws, pws[j + 1])

\* Variant of min_by_key: the last element whose key is minimal (as max_by_key
\* breaks its ties).
min_by_key_last(pws) ==
    IF pws = <<>> THEN 0
    ELSE CHOOSE i \in 1..Len(pws) :
            /\ \A j \in 1..Len(pws) :
                  filtration_power(pws, pws[i]) <= filtration_power(pws, pws[j])
            /\ \A j \in (i + 1)..Len(pws) :
                  filtration_power(pws, pws[j]) > filtration_power(pws, pws[i])

\* Iterator::min_by_key: the first element whose key is minimal, None if empty.
min_by_key(pws) ==
    IF pws = <<>> THEN 0
    ELSE CHOOSE i \in 1..Len(pws) :
            /\ \A j \in 1..Len(pws) :
                  filtration_power(pws, pws[i]) <= filtration_power(pws, pws[j])
            /\ \A j \in 1..(i - 1) :
                  filtration_power(pws, pws[j]) > filtration_power(pws, pws[i])

\* Variant of recommend: a pool of one candidate has nothing to recommend.
recommend_needs_two(pws) ==
    LET i == min_by_key(candidates(pws)) IN
    IF Len(pws) <= 1 THEN <<"Empty">> ELSE OkVal(pws[i])

\* Hacker::recommend
recommend(pws) ==
    LET i == min_by_key(candidates(pws)) IN
    IF i = 0 THEN <<"Empty">> ELSE OkVal(pws[i])

----------------------------------------------------------------------------
\* The state: one App (src/lib.rs) with its Hacker, the last step made on it,
\* and the history the properties speak about.  A step is one Command handled
\* by App::step; Hacker::answer, which no Command reaches, is called directly.
\* The calls on the User are taken to succeed.

VARIABLES
    passwords,  \* Hacker.passwords
    op,         \* the last call: "none" before construction
    arg,        \* its string argument, Some(word) or None
    corr,       \* its correctness argument (0 when it has none)
    result,     \* the value the Hacker returned
    before,     \* Hacker.passwords before it (for new: the input list)
    initial,    \* Hacker.passwords as constructed
    secret,     \* the true password: Some(member of the initial pool) or None
    truthful,   \* every mutating call so far was a filter whose correctness
                \* was commonality(secret, guess)
    steps,      \* calls made since construction
    accepted,   \* the <<guess, correctness>> of every filter that returned Ok
    added,      \* some add returned Ok
    removed,    \* some remove returned Ok
    shown,      \* the call App::step made on the User for the last Command
    running     \* App::run has not returned

vars == <<passwords, op, arg, corr, result, before, initial, secret, truthful, steps,
          accepted, added, removed, shown, running>>

\* No call on the User.
Nothing == <<"nothing">>

\* if let Err(e) = r { self.user.show_error(e)?; }
show_error_if_err(r) == IF r[1] = "Ok" THEN Nothing ELSE <<"show_error", r>>

Init ==
    /\ passwords = <<>>
    /\ op = "none"
    /\ arg = None
    /\ corr = 0
    /\ result = None
    /\ before = <<>>
    /\ initial = <<>>
    /\ secret = None
    /\ truthful = FALSE
    /\ steps = 0
    /\ accepted = {}
    /\ added = FALSE
    /\ removed = FALSE
    /\ shown = Nothing
    /\ running = FALSE

\* Hacker::new(input), and the choice of the true password among the candidates.
New ==
    /\ op = "none"
    /\ \E input \in Inputs :
          /\ passwords' = new(input)
          /\ before' = input
    /\ initial' = passwords'
    /\ op' = "new"
    /\ arg' = None
    /\ corr' = 0
    /\ result' = Ok
    /\ IF passwords' = <<>>
       THEN secret' = None /\ truthful' = FALSE
       ELSE (\E s \in Range(passwords') : secret' = Some(s)) /\ truthful' = TRUE
    /\ steps' = 0
    /\ running' = TRUE
    /\ UNCHANGED <<accepted, added, removed, shown>>

CanCall == op # "none" /\ running /\ steps < MaxSteps

\* Command::FilterPasswords { guess, correctness }: hacker.filter(&guess, correctness)
Filter ==
    /\ CanCall
    /\ \E guess \in Words, correctness \in Correctnesses :
          LET r == filter(passwords, guess, correctness) IN
          /\ passwords' = r.passwords
          /\ result' = r.result
          /\ shown' = show_error_if_err(r.result)
          /\ arg' = Some(guess)
          /\ corr' = correctness
          /\ truthful' = (/\ truthful
                          /\ secret # None
                          /\ correctness = commonality(secret[2], guess))
          /\ accepted' = IF r.result = Ok
                         THEN accepted \cup {<<guess, correctness>>}
                         ELSE accepted
    /\ op' = "filter"
    /\ before' = passwords
    /\ steps' = steps + 1
    /\ UNCHANGED <<initial, secret, added, removed, running>>

\* Command::AddPassword(pw): hacker.add(pw)
Add ==
    /\ CanCall
    /\ \E password \in Words :
          LET r == add(passwords, password) IN
          /\ passwords' = r.passwords
          /\ result' = r.result
          /\ shown' = show_error_if_err(r.result)
          /\ arg' = Some(password)
          /\ added' = (added \/ r.result = Ok)
    /\ op' = "add"
    /\ corr' = 0
    /\ before' = passwords
    /\ truthful' = FALSE
    /\ steps' = steps + 1
    /\ UNCHANGED <<initial, secret, accepted, removed, running>>

\* Command::RemovePassword(pw): hacker.remove(pw.as_str())
Remove ==
    /\ CanCall
    /\ \E password \in Words :
          LET r == remove(passwords, password) IN
          /\ passwords' = r.passwords
          /\ result' = r.result
          /\ shown' = show_error_if_err(r.result)
          /\ arg' = Some(password)
          /\ removed' = (removed \/ r.result = Ok)
    /\ op' = "remove"
    /\ corr' = 0
    /\ before' = passwords
    /\ truthful' = FALSE
    /\ steps' = steps + 1
    /\ UNCHANGED <<initial, secret, accepted, added, running>>

\* hacker.answer()
Answer ==
    /\ CanCall
    /\ result' = answer(passwords)
    /\ shown' = Nothing
    /\ op' = "answer"
    /\ arg' = None
    /\ corr' = 0
    /\ before' = passwords
    /\ steps' = steps + 1
    /\ UNCHANGED <<passwords, initial, secret, truthful, accepted, added, removed, running>>

\* Variant of Recommend: the recommendation is computed from the candidates
\* as they were before the previous call.
Recommend_stale ==
    /\ CanCall
    /\ result' = recommend(before)
    /\ shown' = show_error_if_err(result')
    /\ op' = "recommend"
    /\ arg' = None
    /\ corr' = 0
    /\ before' = passwords
    /\ steps' = steps + 1
    /\ UNCHANGED <<passwords, initial, secret, truthful, accepted, added, removed, running>>

\* Command::SeeRecommended: hacker.recommend(); only an Err is passed to the User.
Recommend ==
    /\ CanCall
    /\ result' = recommend(passwords)
    /\ shown' = show_error_if_err(result')
    /\ op' = "recommend"
    /\ arg' = None
    /\ corr' = 0
    /\ before' = passwords
    /\ steps' = steps + 1
    /\ UNCHANGED <<passwords, initial, secret, truthful, accepted, added, removed, running>>

\* Command::SeeAnswer: the arm is empty.
SeeAnswer ==
    /\ CanCall
    /\ result' = None
    /\ shown' = Nothing
    /\ op' = "see_answer"
    /\ arg' = None
    /\ corr' = 0
    /\ before' = passwords
    /\ steps' = steps + 1
    /\ UNCHANGED <<passwords, initial, secret, truthful, accepted, added, removed, running>>

\* Command::SeePasswords: user.show_passwords(hacker.candidates())
SeePasswords ==
    /\ CanCall
    /\ result' = None
    /\ shown' = <<"show_passwords", candidates(passwords)>>
    /\ op' = "see_passwords"
    /\ arg' = None
    /\ corr' = 0
    /\ before' = passwords
    /\ steps' = steps + 1
    /\ UNCHANGED <<passwords, initial, secret, truthful, accepted, added, removed, running>>

\* Command::Help: user.show_help()
Help ==
    /\ CanCall
    /\ result' = None
    /\ shown' = <<"show_help">>
    /\ op' = "help"
    /\ arg' = None
    /\ corr' = 0
    /\ before' = passwords
    /\ steps' = steps + 1
    /\ UNCHANGED <<passwords, initial, secret, truthful, accepted, added, removed, running>>

\* Command::Exit: step returns Terminate(true) and run returns.
Exit ==
    /\ CanCall
    /\ result' = None
    /\ shown' = Nothing
    /\ op' = "exit"
    /\ arg' = None
    /\ corr' = 0
    /\ before' = passwords
    /\ steps' = steps + 1
    /\ running' = FALSE
    /\ UNCHANGED <<passwords, initial, secret, truthful, accepted, added, removed>>

Next ==
    \/ New \/ Filter \/ Add \/ Remove \/ Answer \/ Recommend
    \/ SeeAnswer \/ SeePasswords \/ Help \/ Exit

Spec == Init /\ [][Next]_vars

----------------------------------------------------------------------------
\* Properties

Constructed == op # "none"
Pool == Range(passwords)
PoolBefore == Range(before)
\* The candidates of the pool before the call that the feedback (arg, corr) keeps.
Matching == {c \in PoolBefore : commonality(c, arg[2]) = corr}

\* C1: while every call made so far was a filter whose correctness equals
\* commonality(secret, guess), the secret is still a member of the pool,
\* whether those calls succeeded or failed.
C1_SecretNeverRemoved == truthful => secret[2] \in Pool

\* Two truthful filter calls were made and the second discarded candidates.
C1_Witness ==
    /\ truthful
    /\ steps = 2
    /\ op = "filter"
    /\ result = Ok
    /\ Len(passwords) < Len(before)
    /\ secret[2] \in Pool

\* C2 as stated: a pool constructed from a nonempty list never has zero
\* candidates.
C2_NeverEmpty == (Constructed /\ initial # <<>>) => Len(passwords) >= 1

\* C2 as amended: a pool constructed from a nonempty list has zero candidates
\* only after a successful remove of its sole candidate or a successful filter
\* whose feedback no candidate matches (and stays so under calls that fail or
\* do not mutate); no other call empties a nonempty pool.
C2_EmptiedOnlyByRemoveOrFilter ==
    (Constructed /\ initial # <<>> /\ passwords = <<>>) =>
        \/ before = <<>>
        \/ op = "remove" /\ result = Ok /\ before = <<arg[2]>>
        \/ op = "filter" /\ result = Ok /\ Matching = {}

\* A successful filter emptied a pool of two or more candidates.
C2_Witness ==
    /\ initial # <<>>
    /\ op = "filter"
    /\ result = Ok
    /\ Len(before) >= 2
    /\ passwords = <<>>

\* The case of C3: the guess is a member, the correctness is within its
\* length, and no member has that commonality with the guess.
C3_Case ==
    /\ op = "filter"
    /\ arg[2] \in PoolBefore
    /\ corr <= Len(arg[2])
    /\ Matching = {}

\* C3 as stated: such a filter fails with Impossible and leaves the pool
\* unchanged.
C3_ImpossibleRejected == C3_Case => (result = <<"Impossible">> /\ passwords = before)

\* C3 as amended: such a filter succeeds and discards every candidate, leaving
\* the pool empty.
C3_ImpossibleEmptiesPool == C3_Case => (result = Ok /\ passwords = <<>>)

\* Feedback that no candidate matches was given on a pool of three.
C3_Witness == C3_Case /\ Len(before) = 3 /\ passwords = <<>>

\* C4: after a successful filter the pool holds exactly the candidates of the
\* pool before whose commonality with the guess is the correctness, each once.
C4_FilterRetainsExactlyMatching ==
    (op = "filter" /\ result = Ok) =>
        /\ Pool = Matching
        /\ Len(passwords) = Cardinality(Matching)

\* A successful filter kept some candidates and discarded others.
C4_Witness ==
    /\ op = "filter"
    /\ result = Ok
    /\ Matching # {}
    /\ Matching # PoolBefore
    /\ Pool = Matching

\* C5: a filter whose guess is not a member of the pool fails with
\* UnknownPassword(guess), whatever the correctness, and leaves the pool
\* unchanged.
C5_UnknownGuessRejected ==
    (op = "filter" /\ arg[2] \notin PoolBefore) =>
        (result = <<"UnknownPassword", arg[2]>> /\ passwords = before)

\* The guess was an initial candidate, is no longer in the pool, and is rejected.
C5_Witness ==
    /\ op = "filter"
    /\ arg[2] \in Range(initial)
    /\ arg[2] \notin PoolBefore
    /\ before # <<>>
    /\ corr <= Len(arg[2])
    /\ result = <<"UnknownPassword", arg[2]>>

\* C6: a filter whose guess is a member and whose correctness exceeds the
\* number of characters of the guess fails with InvalidCorrectness(guess,
\* correctness) and leaves the pool unchanged; when the guess is not a member
\* the error is UnknownPassword even if the correctness exceeds its length.
C6_InvalidCorrectnessRejected ==
    (op = "filter" /\ corr > Len(arg[2])) =>
        /\ passwords = before
        /\ result = IF arg[2] \in PoolBefore
                    THEN <<"InvalidCorrectness", arg[2], corr>>
                    ELSE <<"UnknownPassword", arg[2]>>

\* A member whose UTF-8 length is 2 but which has 1 character was guessed with
\* correctness 2.
C6_Witness ==
    /\ op = "filter"
    /\ arg[2] = <<233>>
    /\ corr = 2
    /\ result = <<"InvalidCorrectness", arg[2], corr>>
    /\ Len(before) >= 2

\* C7: the pool never holds two equal strings, and a constructed pool holds
\* exactly the distinct strings of the input list.
C7_NoDuplicates ==
    /\ Constructed => NoDuplicates(passwords)
    /\ op = "new" => Pool = Range(before)

\* The input list repeated a string with another one in between.
C7_Witness ==
    /\ op = "new"
    /\ Len(before) = 3
    /\ before[1] = before[3]
    /\ before[1] # before[2]
    /\ Len(passwords) = 2

\* C8: add succeeds iff the password is not a member; then the pool is the
\* previous pool plus that one string; otherwise it fails with
\* AlreadyPresent(password) and the pool is unchanged.
C8_AddContract ==
    op = "add" =>
        IF arg[2] \notin PoolBefore
        THEN /\ result = Ok
             /\ Pool = PoolBefore \cup {arg[2]}
             /\ Len(passwords) = Len(before) + 1
        ELSE /\ result = <<"AlreadyPresent", arg[2]>>
             /\ passwords = before

\* A string added by a first add is rejected by a second add.
C8_Witness ==
    /\ op = "add"
    /\ steps = 2
    /\ arg[2] \notin Range(initial)
    /\ result = <<"AlreadyPresent", arg[2]>>
    /\ Len(passwords) = Len(initial) + 1

\* C9: remove succeeds iff the password is a member; then the candidates are
\* the previous ones minus that one string; otherwise it fails with
\* UnknownPassword(password) and the pool is unchanged.
C9_RemoveContract ==
    op = "remove" =>
        IF arg[2] \in PoolBefore
        THEN /\ result = Ok
             /\ Pool = PoolBefore \ {arg[2]}
             /\ Len(passwords) = Len(before) - 1
        ELSE /\ result = <<"UnknownPassword", arg[2]>>
             /\ passwords = before

\* The first of three candidates was removed, so the last one was swapped in.
C9_Witness ==
    /\ op = "remove"
    /\ result = Ok
    /\ Len(before) = 3
    /\ before[1] = arg[2]
    /\ passwords[1] = before[3]

\* C10: answer returns a candidate iff the pool has exactly one candidate, and
\* then returns that candidate; with two or more candidates it returns None.
C10_AnswerIffSole ==
    /\ Constructed =>
          /\ (answer(passwords) # None) <=> (Cardinality(Pool) = 1)
          /\ Cardinality(Pool) = 1 => Pool = {answer(passwords)[2]}
          /\ Cardinality(Pool) >= 2 => answer(passwords) = None
    /\ op = "answer" =>
          /\ (result # None) <=> (Cardinality(PoolBefore) = 1)
          /\ result # None => (result[1] = "Some" /\ PoolBefore = {result[2]})

\* A pool of two or more was narrowed to one candidate, which answer returned.
C10_Witness ==
    /\ op = "answer"
    /\ steps = 2
    /\ Len(initial) >= 2
    /\ result = Some(passwords[1])
    /\ Len(passwords) = 1

\* The sum of f[x] over the elements x of S.
RECURSIVE SetSum(_, _)
SetSum(f, S) ==
    IF S = {} THEN 0
    ELSE LET x == CHOOSE y \in S : TRUE IN f[x] + SetSum(f, S \ {x})

\* The filtration power of guess g over the set S of candidates: the sum over
\* every t in S of the number of c in S with commonality(c, g) = commonality(t, g).
PowerOver(S, g) ==
    SetSum([t \in S |-> Cardinality({c \in S : commonality(c, g) = commonality(t, g)})], S)

\* C11: on a nonempty pool recommend returns a member whose filtration power
\* is minimal among the members, and of the members attaining the minimum the
\* first in the pool's iteration order.
C11_RecommendFirstMinimum ==
    (op = "recommend" /\ before # <<>>) =>
        \E i \in 1..Len(before) :
            /\ result = OkVal(before[i])
            /\ \A j \in 1..Len(before) :
                  PowerOver(PoolBefore, before[i]) <= PowerOver(PoolBefore, before[j])
            /\ \A j \in 1..(i - 1) :
                  PowerOver(PoolBefore, before[j]) > PowerOver(PoolBefore, before[i])

\* Of three candidates the first has a larger power and the other two tie for
\* the minimum; the second is recommended.
C11_Witness ==
    /\ op = "recommend"
    /\ Len(before) = 3
    /\ PowerOver(PoolBefore, before[1]) > PowerOver(PoolBefore, before[2])
    /\ PowerOver(PoolBefore, before[2]) = PowerOver(PoolBefore, before[3])
    /\ result = OkVal(before[2])

\* C12: on a nonempty pool recommend returns a current member of the pool,
\* and a recommend that directly follows a recommend, with no mutation in
\* between, returns the same value.
C12_RecommendMemberAndRepeatable ==
    /\ []((op = "recommend" /\ passwords # <<>>) =>
             (result[1] = "Ok" /\ result[2] \in Pool))
    /\ [][(op = "recommend" /\ op' = "recommend") => result' = result]_vars

\* Candidates of the initial pool are gone, at least two are left, and
\* recommend returned one of those left.
C12_Witness ==
    /\ op = "recommend"
    /\ steps = 2
    /\ Range(initial) \ Pool # {}
    /\ Len(passwords) >= 2
    /\ result[1] = "Ok"
    /\ result[2] \in Pool

\* C13: Hacker::new on an empty list returns None instead of a Hacker with
\* zero candidates.
C13_EmptyInputRejected == (op = "new" /\ before = <<>>) => result = None

\* The candidate s agrees with every feedback a successful filter accepted.
AgreesWithAccepted(s) == \A f \in accepted : commonality(s, f[1]) = f[2]

\* C14 as stated: whenever the pool has exactly one candidate, that candidate
\* was a member of the initial pool and agrees with every accepted feedback.
C14_SolvedIsInitialAndConsistent ==
    (Constructed /\ initial # <<>> /\ Len(passwords) = 1) =>
        (passwords[1] \in Range(initial) /\ AgreesWithAccepted(passwords[1]))

\* C14 as amended: as long as no add has succeeded, whenever the pool has
\* exactly one candidate, that candidate was a member of the initial pool and
\* agrees with every accepted feedback.
C14_SolvedWithoutAdd ==
    (Constructed /\ ~added /\ Len(passwords) = 1) =>
        (passwords[1] \in Range(initial) /\ AgreesWithAccepted(passwords[1]))

\* A pool of three was narrowed to one candidate by an accepted feedback and
\* a remove.
C14_Witness ==
    /\ ~added
    /\ removed
    /\ accepted # {}
    /\ Len(initial) = 3
    /\ Len(passwords) = 1
    /\ AgreesWithAccepted(passwords[1])

Size == Cardinality(Pool)
SizeBefore == Cardinality(PoolBefore)

\* C15: a successful filter never increases the size of the pool, a
\* successful add increases it by exactly 1, a successful remove decreases it
\* by exactly 1, and a failed filter, add or remove leaves it unchanged.
C15_SizeTransitions ==
    /\ (op = "filter" /\ result = Ok) => Size <= SizeBefore
    /\ (op = "add" /\ result = Ok) => Size = SizeBefore + 1
    /\ (op = "remove" /\ result = Ok) => Size = SizeBefore - 1
    /\ (op \in {"filter", "add", "remove"} /\ result # Ok) => Size = SizeBefore

\* After a successful add, a successful filter made the pool smaller.
C15_Witness ==
    /\ added
    /\ op = "filter"
    /\ result = Ok
    /\ Size < SizeBefore
    /\ Size >= 1

\* The number of positions below both lengths at which a and b hold the same
\* character.
PositionsEqual(a, b) ==
    Cardinality({i \in 1..(IF Len(a) < Len(b) THEN Len(a) ELSE Len(b)) : a[i] = b[i]})

\* C16: the commonality filter computes between each candidate and the guess
\* is the number of positions below both lengths holding equal characters,
\* whatever the two lengths, and filter keeps a candidate iff that number is
\* the correctness.
C16_CommonalityCountsPositions ==
    (op = "filter" /\ result = Ok) =>
        \A c \in PoolBefore :
            /\ commonality(c, arg[2]) = PositionsEqual(c, arg[2])
            /\ commonality(arg[2], c) = PositionsEqual(c, arg[2])
            /\ c \in Pool <=> PositionsEqual(c, arg[2]) = corr

\* The empty string, a one-character guess and a longer candidate sharing its
\* first character: the longer candidate is kept by correctness 1, the empty
\* string is not.
C16_Witness ==
    /\ op = "filter"
    /\ result = Ok
    /\ corr = 1
    /\ Len(arg[2]) = 1
    /\ <<>> \in PoolBefore
    /\ <<>> \notin Pool
    /\ \E c \in Pool : Len(c) = 2 /\ c[1] = arg[2][1]

\* C17: recommend fails with Empty iff the pool has zero candidates, and
\* succeeds on every nonempty pool.
C17_EmptyIffNoCandidates ==
    op = "recommend" =>
        /\ (result = <<"Empty">>) <=> (PoolBefore = {})
        /\ PoolBefore # {} => (result[1] = "Ok" /\ Len(result) = 2)

\* A pool constructed nonempty was emptied and recommend then failed.
C17_Witness ==
    /\ op = "recommend"
    /\ initial # <<>>
    /\ passwords = <<>>
    /\ result = <<"Empty">>
    /\ shown = <<"show_error", <<"Empty">>>>

\* C18 as stated: the recommendation for a pool is the recommendation for any
\* pool holding the same set of candidates, in particular for the pool
\* constructed from that set, whatever order add and remove left behind.
C18_OrderIndependent == op = "recommend" => result = recommend(new(before))

\* C18 as amended: two pools holding the same set of candidates recommend
\* candidates of the same, minimal, filtration power (and both fail when the
\* set is empty); which of the candidates tied for the minimum is recommended
\* depends on the order of the pool.
C18_SamePowerForSameSet ==
    op = "recommend" =>
        IF before = <<>>
        THEN result = recommend(new(before))
        ELSE /\ result[1] = "Ok"
             /\ filtration_power(before, result[2])
                   = filtration_power(new(before), recommend(new(before))[2])

\* The pool is not in the order construction gives, its candidates do not all
\* have the same power, and the recommendation differs from the one for the
\* constructed pool.
C18_Witness ==
    /\ op = "recommend"
    /\ before # new(before)
    /\ result # recommend(new(before))
    /\ \E c \in PoolBefore : PowerOver(PoolBefore, c) > PowerOver(PoolBefore, result[2])

\* C19: as long as no add and no remove has succeeded, the pool is exactly
\* the set of initial candidates that agree with every feedback accepted by a
\* successful filter, each once; rejected calls contribute nothing, and the
\* order in which the feedback was accepted does not matter.
C19_PoolIsInitialFilteredByAccepted ==
    (Constructed /\ ~added /\ ~removed) =>
        /\ Pool = {c \in Range(initial) : AgreesWithAccepted(c)}
        /\ Len(passwords) = Size

\* Two different feedbacks were accepted and narrowed a pool of three to two
\* and then to one.
C19_Witness ==
    /\ ~added
    /\ ~removed
    /\ op = "filter"
    /\ result = Ok
    /\ Cardinality(accepted) = 2
    /\ Len(initial) = 3
    /\ Len(before) = 2
    /\ Len(passwords) = 1

\* C20: a SeeRecommended command handled on a nonempty pool is followed by
\* show_recommended of the value recommend returns, a SeeAnswer command
\* handled on a pool of exactly one candidate by show_answer of that
\* candidate; neither changes the pool; an error returned by filter, add,
\* remove or recommend is shown and the loop goes on; only Exit ends the loop.
C20_QueriesShown ==
    /\ (op = "recommend" /\ before # <<>>) =>
          shown = <<"show_recommended", recommend(before)[2]>>
    /\ (op = "see_answer" /\ Len(before) = 1) =>
          shown = <<"show_answer", before[1]>>
    /\ op \in {"recommend", "see_answer"} => passwords = before
    /\ (op \in {"filter", "add", "remove", "recommend"} /\ result[1] # "Ok") =>
          (shown = <<"show_error", result>> /\ running)
    /\ (Constructed /\ ~running) => op = "exit"

====
